---------------------------- MODULE Spec2Model ----------------------------
(***************************************************************************)
(* lib/sqlalchemy_sandbox.py: one mapped class, Student, on an in-memory   *)
(* SQLite database, and a main block that inserts, queries, updates and    *)
(* deletes Student records through one SQLAlchemy session.                 *)
(*                                                                         *)
(* The store is the students table as the session's connection sees it     *)
(* (db) and as of the last COMMIT (committed).  The session holds the      *)
(* pending work of the unit of work: objects added (new), loaded objects   *)
(* whose grade was assigned (dirty) and loaded objects marked for removal  *)
(* (deleted).  An error that the script does not catch ends the run: it is *)
(* kept in raised, and nothing runs after it.                              *)
(*                                                                         *)
(* Spec     : the session operations of the script, applied in any order   *)
(*            to the two Student objects of the script.                    *)
(* MainSpec : the main block, statement by statement.                      *)
(* In both the grade and the email the two Student objects are constructed *)
(* with are drawn from bounded sets that hold the scripted values;         *)
(* Scripted says that they are the values of lines 51-71.                  *)
(***************************************************************************)
EXTENDS Integers, Sequences, FiniteSets

\* CheckConstraint('grade BETWEEN 1 AND 12')
GradeMin == 1
GradeMax == 12

\* How far outside the CHECK range the constructed grades go.
GradeSlack == 1
\* Inserts stop once the next rowid would pass MaxId.
MaxId == 3
\* The operations applied in a run of Spec.
MaxCalls == 5

Objs == {"albert_einstein", "alan_turing"}
Names == {"Albert Einstein", "Alan Turing"}
Emails == {"albert.einstein@zurich.edu", "alan.turing@sherborne.edu"}

NameOf(o) == IF o = "albert_einstein" THEN "Albert Einstein" ELSE "Alan Turing"
BirthdayOf(o) == IF o = "albert_einstein" THEN <<1879, 3, 14>> ELSE <<1912, 6, 23>>
ScriptedEmail(o) ==
    IF o = "albert_einstein" THEN "albert.einstein@zurich.edu"
    ELSE "alan.turing@sherborne.edu"
ScriptedGrade(o) == IF o = "albert_einstein" THEN 6 ELSE 11

\* Column default datetime.now(), evaluated once when the class body runs.
EnrolledDefault == "class_load_time"

\* The grades a Student object is constructed with: the scripted ones and
\* those at and around the ends of the CHECK range.
InputGrades ==
    {ScriptedGrade(o) : o \in Objs}
        \cup ((GradeMin - GradeSlack) .. GradeMin)
        \cup (GradeMax .. (GradeMax + GradeSlack))

None == <<>>
Some(x) == <<x>>

\* Student(name=..., email=..., grade=..., birthday=...): id is unset.
Student(o, email, grade) ==
    [name |-> NameOf(o), email |-> email, grade |-> grade,
     birthday |-> BirthdayOf(o), id |-> None, state |-> "transient"]

NoError == [at |-> "none", error |-> "none"]

VARIABLES
    db,         \* rows of students as the session's connection sees them
    committed,  \* rows of students as of the last COMMIT
    new,        \* session.new: objects added, in the order of the adds
    dirty,      \* loaded objects with an assigned grade: {[id, grade]}
    deleted,    \* ids of loaded objects marked by session.delete
    student,    \* the in-memory objects albert_einstein and alan_turing
    queried,    \* what the last query.first() of a delete block returned
    raised,     \* the uncaught error, and the call that raised it
    last,       \* the last operation run, with its arguments
    calls,      \* how many operations have run
    pc          \* the main block's next statement

vars == <<db, committed, new, dirty, deleted, student, queried, raised, last, calls, pc>>

---------------------------------------------------------------------------
(* The students table.                                                     *)

Max(S) == CHOOSE x \in S : \A y \in S : y <= x
Min(S) == CHOOSE x \in S : \A y \in S : x <= y

Ids(t) == {r.id : r \in t}
RowOf(t, i) == CHOOSE r \in t : r.id = i

\* id is the INTEGER primary key: an insert without one takes the largest
\* rowid in the table plus one.
NextId(t) == IF t = {} THEN 1 ELSE Max(Ids(t)) + 1

\* Variant: the upper end of the range off by one.
GradeBetween1And12Mut(g) == g >= GradeMin /\ g <= GradeMax + 1
\* CHECK (grade BETWEEN 1 AND 12)
GradeBetween1And12(g) == g >= GradeMin /\ g <= GradeMax

\* Variant: the constraint compares the wrong column.
UniqueEmailMut(t, email, i) == \A r \in t : r.id = i \/ r.name # email
\* UNIQUE (email): holds when no other row has the email.
UniqueEmail(t, email, i) == \A r \in t : r.id = i \/ r.email # email

\* The constraint a row violates, CHECK before UNIQUE as SQLite tests them.
Violation(t, row) ==
    IF ~GradeBetween1And12(row.grade) THEN "grade_between_1_and_12"
    ELSE IF ~UniqueEmail(t, row.email, row.id) THEN "unique_email"
    ELSE "none"

\* INSERT INTO students (name, email, grade, birthday, enrolled_date)
SqlInsert(t, o) ==
    LET row == [id |-> NextId(t), name |-> o.name, email |-> o.email,
                grade |-> o.grade, birthday |-> o.birthday,
                enrolled_date |-> EnrolledDefault]
        v == Violation(t, row)
    IN  [error |-> v, id |-> row.id, t |-> IF v = "none" THEN t \cup {row} ELSE t]

\* UPDATE students SET grade=? WHERE students.id = ?
SqlUpdateGrade(t, i, g) ==
    IF i \notin Ids(t) THEN [error |-> "none", t |-> t]
    ELSE LET old == RowOf(t, i)
             row == [old EXCEPT !.grade = g]
             v == Violation(t, row)
         IN  [error |-> v, t |-> IF v = "none" THEN (t \ {old}) \cup {row} ELSE t]

\* The rows in rowid order, the order of a table scan.
RECURSIVE Scan(_)
Scan(t) ==
    IF t = {} THEN <<>>
    ELSE LET r == RowOf(t, Min(Ids(t))) IN <<r>> \o Scan(t \ {r})


\* Rows of a result that satisfy name == n, in scan order.
RECURSIVE FilterByName(_, _)
FilterByName(q, n) ==
    IF q = <<>> THEN <<>>
    ELSE (IF Head(q).name = n THEN <<Head(q)>> ELSE <<>>) \o FilterByName(Tail(q), n)

\* Variant: ascending order.
RECURSIVE InsertDescMut(_, _)
InsertDescMut(r, q) ==
    IF q = <<>> THEN <<r>>
    ELSE IF Head(q).grade > r.grade THEN <<r>> \o q
    ELSE <<Head(q)>> \o InsertDescMut(r, Tail(q))
\* order_by(desc(Student.grade)): a row goes before the first row of the
\* sorted rest whose grade is strictly smaller, so equal grades keep scan order.
RECURSIVE InsertDesc(_, _)
InsertDesc(r, q) ==
    IF q = <<>> THEN <<r>>
    ELSE IF Head(q).grade < r.grade THEN <<r>> \o q
    ELSE <<Head(q)>> \o InsertDesc(r, Tail(q))

RECURSIVE OrderByGradeDesc(_)
OrderByGradeDesc(q) ==
    IF q = <<>> THEN <<>>
    ELSE InsertDesc(q[Len(q)], OrderByGradeDesc(SubSeq(q, 1, Len(q) - 1)))

\* .limit(n): the first n rows of the result.
Limit(q, n) == SubSeq(q, 1, IF Len(q) < n THEN Len(q) ELSE n)

\* .first(): LIMIT 1, then the first row fetched, or None.
First(q) == LET r == Limit(q, 1) IN IF r = <<>> THEN None ELSE Some(r[1])

\* query(Student.name, Student.birthday): the projection of each row.
RECURSIVE NameBirthday(_)
NameBirthday(q) ==
    IF q = <<>> THEN <<>>
    ELSE <<(<<Head(q).name, Head(q).birthday>>)>> \o NameBirthday(Tail(q))

\* Variant: the count stops at the first row.
RECURSIVE CountIdMut(_)
CountIdMut(q) ==
    IF q = <<>> THEN 0
    ELSE IF Head(q).id \in Nat THEN 1 ELSE CountIdMut(Tail(q))
\* func.count(Student.id): one per row of the scan whose id is not NULL.
RECURSIVE CountId(_)
CountId(q) ==
    IF q = <<>> THEN 0
    ELSE (IF Head(q).id \in Nat THEN 1 ELSE 0) + CountId(Tail(q))

\* lines 111-113: order_by(desc(grade)).limit(1) over (name, birthday)
OldestStudent(t) == NameBirthday(Limit(OrderByGradeDesc(Scan(t)), 1))
\* lines 118-120: order_by(desc(grade)).first() over (name, birthday)
OldestStudentOne(t) == First(NameBirthday(OrderByGradeDesc(Scan(t))))
\* line 125: query(func.count(Student.id)).first()
StudentCount(t) == CountId(Scan(t))
\* lines 157-159 and 175-177: filter(Student.name == n), then first()
FirstByName(t, n) == First(FilterByName(Scan(t), n))

---------------------------------------------------------------------------
(* The session.  Each operation maps a state record to the state after it; *)
(* an operation reached with an error already raised does nothing, as the  *)
(* exception has left the block.                                           *)

Cur ==
    [db |-> db, committed |-> committed, new |-> new, dirty |-> dirty,
     deleted |-> deleted, student |-> student, queried |-> queried,
     raised |-> raised]

Assign(S) ==
    /\ db' = S.db
    /\ committed' = S.committed
    /\ new' = S.new
    /\ dirty' = S.dirty
    /\ deleted' = S.deleted
    /\ student' = S.student
    /\ queried' = S.queried
    /\ raised' = S.raised

Ok(S) == S.raised = NoError

\* The dirty objects in primary-key order, the order of the flush's UPDATEs.
RECURSIVE DirtySeq(_)
DirtySeq(d) ==
    IF d = {} THEN <<>>
    ELSE LET x == CHOOSE x \in d : \A y \in d : x.id <= y.id
         IN  <<x>> \o DirtySeq(d \ {x})

\* The statements of one batch of grade updates, one row after the other,
\* stopping at the first that violates a constraint.
RECURSIVE ApplyUpdates(_, _)
ApplyUpdates(t, ds) ==
    IF ds = <<>> THEN [error |-> "none", t |-> t]
    ELSE LET r == SqlUpdateGrade(t, Head(ds).id, Head(ds).grade)
         IN  IF r.error # "none" THEN r ELSE ApplyUpdates(r.t, Tail(ds))

\* The INSERTs of a list of objects, in order, stopping at the first that
\* violates a constraint; st records the id each inserted object was given.
RECURSIVE ApplyInserts(_, _, _)
ApplyInserts(t, st, os) ==
    IF os = <<>> THEN [error |-> "none", t |-> t, student |-> st]
    ELSE LET o == Head(os)
             r == SqlInsert(t, st[o])
         IN  IF r.error # "none" THEN [error |-> r.error, t |-> r.t, student |-> st]
             ELSE ApplyInserts(r.t,
                      [st EXCEPT ![o].id = Some(r.id), ![o].state = "persistent"],
                      Tail(os))

\* Variant: the failed transaction is left as it stands.
RollbackMut(S) == [S EXCEPT !.new = <<>>, !.dirty = {}, !.deleted = {}]
\* The session rolls the transaction back when a flush or a bulk save fails:
\* the connection is back at the last COMMIT, pending objects are expunged.
Rollback(S) ==
    [S EXCEPT !.db = S.committed, !.new = <<>>, !.dirty = {}, !.deleted = {},
              !.student = [o \in Objs |->
                  IF S.student[o].state = "pending"
                  THEN [S.student[o] EXCEPT !.state = "transient"]
                  ELSE S.student[o]]]

\* session.flush(): the UPDATEs of the dirty objects, the INSERTs of the new
\* ones, then the DELETEs; `at` is the call that flushes.
Flush(S, at) ==
    LET u == ApplyUpdates(S.db, DirtySeq(S.dirty))
        i == IF u.error # "none"
             THEN [error |-> u.error, t |-> u.t, student |-> S.student]
             ELSE ApplyInserts(u.t, S.student, S.new)
    IN  IF i.error # "none"
        THEN Rollback([S EXCEPT !.db = i.t, !.raised = [at |-> at, error |-> i.error]])
        ELSE [S EXCEPT !.db = {r \in i.t : r.id \notin S.deleted},
                       !.student = i.student,
                       !.new = <<>>, !.dirty = {}, !.deleted = {}]

\* A query flushes the session before its SELECT.
Autoflush(S, at) == IF Ok(S) THEN Flush(S, at) ELSE S

\* session.commit(): flush, then COMMIT.
Commit(S) ==
    IF ~Ok(S) THEN S
    ELSE LET F == Flush(S, "commit")
         IN  IF Ok(F) THEN [F EXCEPT !.committed = F.db] ELSE F

\* session.add(o): a transient object becomes pending.
SessionAdd(S, o) ==
    IF ~Ok(S) \/ S.student[o].state # "transient" THEN S
    ELSE [S EXCEPT !.new = Append(S.new, o), !.student[o].state = "pending"]

\* Variant: the bulk save hands the new ids back to the objects.
BulkSaveObjectsMut(S, os) ==
    IF ~Ok(S) THEN S
    ELSE LET i == ApplyInserts(S.db, S.student, os)
         IN  IF i.error # "none"
             THEN Rollback([S EXCEPT !.db = i.t,
                      !.raised = [at |-> "bulk_save_objects", error |-> i.error]])
             ELSE [S EXCEPT !.db = i.t, !.student = i.student]
\* session.bulk_save_objects(os): the INSERTs run at once, and the objects
\* are not associated with the session: they stay transient, their id unset.
BulkSaveObjects(S, os) ==
    IF ~Ok(S) THEN S
    ELSE LET i == ApplyInserts(S.db, S.student, os)
         IN  IF i.error # "none"
             THEN Rollback([S EXCEPT !.db = i.t,
                      !.raised = [at |-> "bulk_save_objects", error |-> i.error]])
             ELSE [S EXCEPT !.db = i.t]

\* for student in session.query(Student): student.grade += 1
IncrementLoaded(S) ==
    LET F == Autoflush(S, "query")
    IN  IF ~Ok(F) THEN F
        ELSE [F EXCEPT !.dirty = {[id |-> r.id, grade |-> r.grade + 1] : r \in F.db}]

\* The grade = grade + 1 of every row, in scan order.
RECURSIVE GradePlusOne(_)
GradePlusOne(q) ==
    IF q = <<>> THEN <<>>
    ELSE <<[id |-> Head(q).id, grade |-> Head(q).grade + 1]>> \o GradePlusOne(Tail(q))

\* session.query(Student).update({Student.grade: Student.grade + 1}): one
\* UPDATE statement; SQLite backs out a statement that fails, and the error
\* leaves the call.
QueryUpdate(S) ==
    LET F == Autoflush(S, "update")
    IN  IF ~Ok(F) THEN F
        ELSE LET u == ApplyUpdates(F.db, GradePlusOne(Scan(F.db)))
             IN  IF u.error # "none"
                 THEN [F EXCEPT !.raised = [at |-> "update", error |-> u.error]]
                 ELSE [F EXCEPT !.db = u.t]

\* albert_einstein = query.first(), query being filter(Student.name == n)
QueryFirst(S, n) ==
    LET F == Autoflush(S, "first")
    IN  IF ~Ok(F) THEN F ELSE [F EXCEPT !.queried = FirstByName(F.db, n)]

\* session.delete(albert_einstein): marks the loaded object; None is no
\* mapped instance.
SessionDelete(S, x) ==
    IF ~Ok(S) THEN S
    ELSE IF x = None
         THEN [S EXCEPT !.raised = [at |-> "session.delete", error |-> "UnmappedInstanceError"]]
         ELSE [S EXCEPT !.deleted = S.deleted \cup {x[1].id}]

\* Variants: the DELETE is not sent; the DELETE loses its WHERE clause.
QueryDeleteDeferred(S, n) == Autoflush(S, "delete")
QueryDeleteUnfiltered(S, n) ==
    LET F == Autoflush(S, "delete")
    IN  IF ~Ok(F) THEN F ELSE [F EXCEPT !.db = {}]
\* query.delete(), query being filter(Student.name == n): one DELETE
\* statement over the matching rows, not committed.
QueryDelete(S, n) ==
    LET F == Autoflush(S, "delete")
    IN  IF ~Ok(F) THEN F ELSE [F EXCEPT !.db = {r \in F.db : r.name # n}]

---------------------------------------------------------------------------
(* Construction: lines 43-71.  The table is created empty, the session has *)
(* nothing pending, and the two Student objects are transient.             *)

Called(c, os, n) == [call |-> c, objs |-> os, name |-> n]

Construct(start) ==
    /\ db = {}
    /\ committed = {}
    /\ new = <<>>
    /\ dirty = {}
    /\ deleted = {}
    /\ student \in {[o \in Objs |-> Student(o, e[o], g[o])] :
                       e \in [Objs -> Emails], g \in [Objs -> InputGrades]}
    /\ queried = None
    /\ raised = NoError
    /\ last = Called("construct", <<>>, "")
    /\ calls = 0
    /\ pc = start

\* The objects are those of lines 51-71.
Scripted ==
    \A o \in Objs :
        student[o].email = ScriptedEmail(o) /\ student[o].grade = ScriptedGrade(o)

---------------------------------------------------------------------------
(* The operations of the script, in any order.                             *)

Init == Construct("api")

Transient(os) == \A k \in 1..Len(os) : student[os[k]].state = "transient"

\* Lists of one or two of the objects.
ObjLists == {<<o>> : o \in Objs} \cup {<<o1, o2>> : o1 \in Objs, o2 \in Objs}

\* lines 73-74: session.add(o); session.commit()
TrackedInsert(o) ==
    /\ Ok(Cur) /\ calls < MaxCalls
    /\ Transient(<<o>>)
    /\ NextId(db) <= MaxId
    /\ Assign(Commit(SessionAdd(Cur, o)))
    /\ last' = Called("tracked_insert", <<o>>, "")
    /\ calls' = calls + 1
    /\ UNCHANGED pc

\* lines 78-79: session.bulk_save_objects(os); session.commit()
BulkInsert(os) ==
    /\ Ok(Cur) /\ calls < MaxCalls
    /\ Transient(os)
    /\ NextId(db) + Len(os) - 1 <= MaxId
    /\ Assign(Commit(BulkSaveObjects(Cur, os)))
    /\ last' = Called("bulk_insert", os, "")
    /\ calls' = calls + 1
    /\ UNCHANGED pc

\* lines 137-140: the loop of grade += 1, then session.commit()
LoadMutateCommit ==
    /\ Ok(Cur) /\ calls < MaxCalls
    /\ Assign(Commit(IncrementLoaded(Cur)))
    /\ last' = Called("load_mutate_commit", <<>>, "")
    /\ calls' = calls + 1
    /\ UNCHANGED pc

\* lines 146-148: query.update({grade: grade + 1})
BulkUpdate ==
    /\ Ok(Cur) /\ calls < MaxCalls
    /\ Assign(QueryUpdate(Cur))
    /\ last' = Called("bulk_update", <<>>, "")
    /\ calls' = calls + 1
    /\ UNCHANGED pc

\* lines 157-166: query.first(), session.delete of it, session.commit()
LoadedDelete(n) ==
    /\ Ok(Cur) /\ calls < MaxCalls
    /\ LET Q == QueryFirst(Cur, n) IN Assign(Commit(SessionDelete(Q, Q.queried)))
    /\ last' = Called("loaded_delete", <<>>, n)
    /\ calls' = calls + 1
    /\ UNCHANGED pc

\* lines 175-179: query.delete()
BulkDelete(n) ==
    /\ Ok(Cur) /\ calls < MaxCalls
    /\ Assign(QueryDelete(Cur, n))
    /\ last' = Called("bulk_delete", <<>>, n)
    /\ calls' = calls + 1
    /\ UNCHANGED pc

Next ==
    \/ \E o \in Objs : TrackedInsert(o)
    \/ \E os \in ObjLists : BulkInsert(os)
    \/ LoadMutateCommit
    \/ BulkUpdate
    \/ \E n \in Names : LoadedDelete(n)
    \/ \E n \in Names : BulkDelete(n)

Spec == Init /\ [][Next]_vars

---------------------------------------------------------------------------
(* The main block, lines 42-183, one statement per step.  A statement that *)
(* raises ends the run.                                                    *)

MainInit == Construct("L78")

\* The statement at `line` runs, taking the state to S; control goes on to
\* `next` unless the statement raised.
Step(line, S, c, next) ==
    /\ pc = line
    /\ Ok(Cur)
    /\ Assign(S)
    /\ last' = c
    /\ calls' = calls + 1
    /\ pc' = IF Ok(S) THEN next ELSE "traceback"

L78 == Step("L78", BulkSaveObjects(Cur, <<"albert_einstein", "alan_turing">>),
            Called("bulk_save_objects", <<"albert_einstein", "alan_turing">>, ""), "L79")
L79 == Step("L79", Commit(Cur), Called("commit", <<>>, ""), "L84")
\* lines 84-134: the queries and their prints; each query autoflushes.
L84 == Step("L84", Autoflush(Cur, "query"), Called("query", <<>>, ""), "L92")
L92 == Step("L92", Autoflush(Cur, "query"), Called("query", <<>>, ""), "L97")
L97 == Step("L97", Autoflush(Cur, "query"), Called("query", <<>>, ""), "L104")
L104 == Step("L104", Autoflush(Cur, "query"), Called("query", <<>>, ""), "L111")
L111 == Step("L111", Autoflush(Cur, "query"), Called("query", <<>>, ""), "L118")
L118 == Step("L118", Autoflush(Cur, "query"), Called("query", <<>>, ""), "L125")
L125 == Step("L125", Autoflush(Cur, "query"), Called("query", <<>>, ""), "L130")
L130 == Step("L130", Autoflush(Cur, "query"), Called("query", <<>>, ""), "L137")
L137 == Step("L137", IncrementLoaded(Cur), Called("loop", <<>>, ""), "L140")
L140 == Step("L140", Commit(Cur), Called("commit", <<>>, ""), "L142")
L142 == Step("L142", Autoflush(Cur, "query"), Called("query", <<>>, ""), "L146")
L146 == Step("L146", QueryUpdate(Cur), Called("update", <<>>, ""), "L150")
L150 == Step("L150", Autoflush(Cur, "query"), Called("query", <<>>, ""), "L162")
L162 == Step("L162", QueryFirst(Cur, "Albert Einstein"),
             Called("first", <<>>, "Albert Einstein"), "L165")
L165 == Step("L165", SessionDelete(Cur, queried),
             Called("session.delete", <<>>, "Albert Einstein"), "L166")
L166 == Step("L166", Commit(Cur), Called("commit", <<>>, "Albert Einstein"), "L169")
L169 == Step("L169", QueryFirst(Cur, "Albert Einstein"),
             Called("first", <<>>, "Albert Einstein"), "L179")
L179 == Step("L179", QueryDelete(Cur, "Albert Einstein"),
             Called("delete", <<>>, "Albert Einstein"), "L181")
L181 == Step("L181", QueryFirst(Cur, "Albert Einstein"),
             Called("first", <<>>, "Albert Einstein"), "done")

MainNext ==
    \/ L78 \/ L79 \/ L84 \/ L92 \/ L97 \/ L104 \/ L111 \/ L118 \/ L125 \/ L130
    \/ L137 \/ L140 \/ L142 \/ L146 \/ L150
    \/ L162 \/ L165 \/ L166 \/ L169 \/ L179 \/ L181

MainSpec == MainInit /\ [][MainNext]_vars

---------------------------------------------------------------------------
(* Properties.                                                             *)

ConstraintErrors == {"grade_between_1_and_12", "unique_email"}
Inserts == {"tracked_insert", "bulk_insert"}
Deletes == {"loaded_delete", "bulk_delete"}

\* The row stored for object o: the one with its email.
Stored(t, o) == {r \in t : r.email = student[o].email /\ r.name = student[o].name}

GradesOf(os) == {student[os[k]].grade : k \in 1..Len(os)}
InRange(g) == 1 <= g /\ g <= 12

\* Inserting the list os into t meets an email twice.
Duplicates(t, os) ==
    \E k \in 1..Len(os) :
        \/ \E r \in t : r.email = student[os[k]].email
        \/ \E j \in 1..(k - 1) : student[os[j]].email = student[os[k]].email

\* C1: in the scripted run, once the loop of grade += 1 with its commit and
\* then the bulk update grade = grade + 1 have run, every record's stored
\* grade is the grade it was inserted with plus 2 (6 -> 8, 11 -> 13).
C1_GradesPlusTwo ==
    (Scripted /\ last.call = "update") =>
        \A o \in Objs : \E r \in db :
            r.name = student[o].name /\ r.grade = student[o].grade + 2

\* C2: every stored record has 1 <= grade <= 12 after every operation; an
\* insert whose grades are all in 1..12 does not fail on the grade, and
\* succeeds when no email is met twice; an operation that would store a
\* grade outside 1..12 (an insert of one, or an increment of a stored 12)
\* raises instead.
C2_GradeInRange ==
    [][ /\ \A r \in db' \cup committed' : InRange(r.grade)
        /\ (last'.call \in Inserts /\ \A g \in GradesOf(last'.objs) : InRange(g)) =>
              /\ raised'.error # "grade_between_1_and_12"
              /\ ~Duplicates(db, last'.objs) =>
                    /\ raised' = NoError
                    /\ \A k \in 1..Len(last'.objs) :
                          \E r \in db' : /\ r.email = student[last'.objs[k]].email
                                         /\ r.grade = student[last'.objs[k]].grade
        /\ (last'.call \in Inserts /\ \E g \in GradesOf(last'.objs) : ~InRange(g)) =>
              raised'.error \in ConstraintErrors
        /\ (last'.call \in {"load_mutate_commit", "bulk_update"}
                /\ \E r \in db : r.grade = 12) =>
              raised'.error = "grade_between_1_and_12"
      ]_vars

\* C2's case: a grade of 12 was inserted, and an increment of it has raised.
C2_Witness ==
    /\ raised.error = "grade_between_1_and_12"
    /\ last.call \in {"load_mutate_commit", "bulk_update"}
    /\ \E r \in db : r.grade = 12

\* C3 as stated: every constraint violation surfaces at commit.
C3_ErrorsAtCommit ==
    raised.error \in ConstraintErrors => raised.at = "commit"

\* C3, amended: a constraint violation surfaces where its statement runs, at
\* the commit for tracked changes (session.add, assigned grades), at the
\* bulk_save_objects call and at the query.update call for the bulk paths;
\* the failed unit leaves nothing in the store (a failed flush or bulk save
\* leaves the store at the last commit, a failed bulk update leaves it as it
\* was before the statement), and the last commit is untouched.  An
\* operation ending in a commit that does not raise leaves nothing pending
\* and the committed store equal to the session's view.
C3_UnitIsAtomic ==
    [][ /\ raised'.error \in ConstraintErrors =>
              /\ committed' = committed
              /\ \/ raised'.at = "commit"
                       /\ last'.call \in {"tracked_insert", "load_mutate_commit"}
                       /\ db' = committed
                 \/ raised'.at = "bulk_save_objects"
                       /\ last'.call = "bulk_insert"
                       /\ db' = committed
                 \/ raised'.at = "update"
                       /\ last'.call = "bulk_update"
                       /\ db' = db
        /\ (raised' = NoError
                /\ last'.call \in Inserts \cup {"load_mutate_commit", "loaded_delete"}) =>
              /\ committed' = db'
              /\ new' = <<>> /\ dirty' = {} /\ deleted' = {}
        /\ (raised' = NoError /\ last'.call = "load_mutate_commit") =>
              \A r \in db : \E q \in committed' : q.id = r.id /\ q.grade = r.grade + 1
      ]_vars

\* C3's case: a unit of two changes whose second violates a constraint has
\* raised, with a non-empty store behind it.
C3_Witness ==
    /\ raised.error \in ConstraintErrors
    /\ \/ last.call = "bulk_insert" /\ Len(last.objs) = 2
             /\ InRange(student[last.objs[1]].grade)
             /\ ~InRange(student[last.objs[2]].grade)
       \/ last.call \in {"load_mutate_commit", "bulk_update"}
             /\ \E r1, r2 \in db : r1.id < r2.id /\ r1.grade < 12 /\ r2.grade = 12

\* C4 as stated: inserting two records with the same email fails at commit.
C4_DuplicateFailsAtCommit ==
    raised.error = "unique_email" => raised.at = "commit"

\* C4, amended: no two stored records ever share an email: inserting a
\* record whose email is already stored, or two records with one email,
\* raises (at the bulk_save_objects call on the bulk path, at the commit on
\* the tracked path) and stores none of them.
C4_EmailUnique ==
    [][ /\ \A t \in {db', committed'} : \A r1, r2 \in t : r1.email = r2.email => r1 = r2
        /\ (last'.call \in Inserts /\ Duplicates(db, last'.objs)
                /\ \A g \in GradesOf(last'.objs) : InRange(g)) =>
              /\ raised'.error = "unique_email"
              /\ raised'.at = IF last'.call = "bulk_insert"
                              THEN "bulk_save_objects" ELSE "commit"
              /\ db' = committed /\ committed' = committed
      ]_vars

\* C4's case: two objects with one email were bulk-saved, and it raised.
C4_Witness ==
    /\ last.call = "bulk_insert" /\ Len(last.objs) = 2
    /\ last.objs[1] # last.objs[2]
    /\ student[last.objs[1]].email = student[last.objs[2]].email
    /\ raised.error = "unique_email"

\* C5: an object inserted by session.add and commit has its id set, the id
\* of the row stored for it; an object inserted by bulk_save_objects and
\* commit keeps id None and stays outside the session, while the committed
\* table holds a row for it, the rows' ids being distinct.
C5_IdVisibility ==
    /\ \A o \in Objs : student[o].state = "persistent" => student[o].id # None
    /\ \A o \in Objs : student[o].state = "transient" => student[o].id = None
    /\ (last.call = "tracked_insert" /\ raised = NoError) =>
          \A k \in 1..Len(last.objs) :
              /\ student[last.objs[k]].id # None
              /\ \E r \in Stored(committed, last.objs[k]) :
                    student[last.objs[k]].id = Some(r.id)
    /\ (last.call = "bulk_insert" /\ raised = NoError) =>
          /\ \A k \in 1..Len(last.objs) :
                /\ student[last.objs[k]].id = None
                /\ Stored(committed, last.objs[k]) # {}
          /\ \A r1, r2 \in committed : r1.id = r2.id => r1 = r2
          /\ Cardinality(committed) >= Len(last.objs)

\* C5's case: one object went in by the tracked path and has its id, the
\* other by the bulk path and has none, and both are stored.
C5_Witness ==
    /\ raised = NoError /\ last.call = "bulk_insert"
    /\ \E o1, o2 \in Objs :
          /\ student[o1].id # None /\ Stored(committed, o1) # {}
          /\ student[o2].id = None /\ Stored(committed, o2) # {}
          /\ last.objs = <<o2>>

\* C6: after a removal by name, by session.delete of the loaded object and
\* commit or by query.delete(), first() on the same filter yields None, and
\* keeps yielding None through every later operation that is not an insert.
C6_RemovedIsGone ==
    [][ /\ (last'.call \in Deletes /\ raised' = NoError) =>
              FirstByName(db', last'.name) = None
        /\ (last'.call = "loaded_delete" /\ raised' = NoError) =>
              /\ queried' # None
              /\ queried'[1] \in db
              /\ FirstByName(committed', last'.name) = None
        /\ \A n \in Names :
              (FirstByName(db, n) = None /\ last'.call \notin Inserts /\ raised' = NoError) =>
                  FirstByName(db', n) = None
      ]_vars

\* C6's case: a loaded record was removed by session.delete and commit
\* while another record stays stored.
C6_Witness ==
    /\ last.call = "loaded_delete" /\ raised = NoError
    /\ queried # None /\ queried[1] \notin db
    /\ db # {}

\* C7: on a non-empty table, order_by(desc(grade)) followed by limit(1) and
\* followed by first() select the same record, one whose grade is the
\* largest stored.
C7_HighestGradeFirst ==
    db # {} =>
        /\ Len(OldestStudent(db)) = 1
        /\ OldestStudentOne(db) = Some(OldestStudent(db)[1])
        /\ \E r \in db :
              /\ \A q \in db : q.grade <= r.grade
              /\ OldestStudent(db)[1] = <<r.name, r.birthday>>

\* C7's case: two records of different grades, the higher one later in the
\* scan.
C7_Witness ==
    \E r1, r2 \in db : r1.id < r2.id /\ r1.grade < r2.grade

\* C8: func.count(Student.id) is the number of records in the table, in every
\* state; it is 2 after the scripted bulk insert of the two students.
C8_CountIsNumberOfRecords ==
    /\ StudentCount(db) = Cardinality(db)
    /\ StudentCount(committed) = Cardinality(committed)
    /\ (Scripted /\ calls = 1 /\ raised = NoError
            /\ last = Called("bulk_insert", <<"albert_einstein", "alan_turing">>, "")) =>
          StudentCount(db) = 2

\* C8's case: the scripted bulk insert of the two students has run, and
\* the count is 2.
C8_Witness ==
    /\ Scripted /\ calls = 1 /\ raised = NoError
    /\ last = Called("bulk_insert", <<"albert_einstein", "alan_turing">>, "")
    /\ StudentCount(db) = 2

\* C9: the scripted run raises at no statement.
C9_ScriptedRunRaisesNothing ==
    Scripted => (raised = NoError /\ pc # "traceback")

\* C10: a delete by name, of the loaded object or by query.delete(), leaves
\* every record of another name as it was and adds none; a query.delete()
\* that matches no record leaves the table, and the committed table, as they
\* were.
C10_DeleteFrame ==
    [][ (last'.call \in Deletes /\ calls' = calls + 1 /\ raised' = NoError) =>
            /\ \A r \in db : r.name # last'.name => r \in db'
            /\ db' \subseteq db
            /\ (last'.call = "bulk_delete" /\ FirstByName(db, last'.name) = None) =>
                  (db' = db /\ committed' = committed)
      ]_vars

\* C10's case: query.delete() ran on a filter that matched nothing (the
\* table still has every committed id) while another record is stored.
C10_Witness ==
    /\ last.call = "bulk_delete" /\ raised = NoError
    /\ db # {} /\ Ids(db) = Ids(committed)

===========================================================================
